---- MODULE Spec2Model ----
(***************************************************************************)
(* The NES CPU core of src/src/emulator/cpu.ts (class CPU, lines 296-521): *)
(* register / flag / program-counter state, the memory accessors, load,    *)
(* reset and the fetch-decode-execute loop of run.                         *)
(*                                                                         *)
(* Spec is the CPU under load and run calls, SpecFair the same with run's *)
(* loop running to its end.  SpecTop starts the CPU at the top of memory. *)
(* SpecMemory, SpecFlags and SpecAddress call the memory                   *)
(* accessors, updateZeroAndNegativeFlags and getOperandAddress one at a    *)
(* time on inputs drawn from bounded sets.  SpecInterpret calls interpret  *)
(* of the earlier CPU classes: the first one (src/unnamed/part_003), the   *)
(* array-based one (src/unnamed/part_002) and the first memory-based one   *)
(* (src/src/emulator/cpu.ts, lines 65-278).                                *)
(*                                                                         *)
(* JavaScript numbers are modelled by integers; the two non-numeric values *)
(* the code can produce are modelled by negative sentinels: Undefined (a   *)
(* read of a typed array outside its length) and NaN (undefined + 1).      *)
(***************************************************************************)
EXTENDS Integers, Sequences, FiniteSets, TLC

VARIABLES
  register_acc,     \* CPU.register_acc
  register_x,       \* CPU.register_x
  register_y,       \* CPU.register_y
  status,           \* CPU.status
  program_counter,  \* CPU.program_counter
  memory,           \* CPU.memory: the cells that hold a non-zero byte
  phase,            \* where the caller is: Unloaded, Loaded, Running, Halted, Aborted
  opCode,           \* run's local opCode: the opcode fetched last
  opAddress,        \* the address opCode was fetched from
  result,           \* the value last given to updateZeroAndNegativeFlags since reset
  program,          \* the argument of the last call of load
  last,             \* the operation that produced this state
  calledFrom,       \* the phase in which the last call of load or run was made
  loads,            \* calls of load so far
  runs,             \* calls of run since the last load
  calls             \* the direct calls of the CPU's methods made so far, in order

vars == <<register_acc, register_x, register_y, status, program_counter, memory,
          phase, opCode, opAddress, result, program, last, calledFrom, loads, runs,
          calls>>

registers == <<register_acc, register_x, register_y, status>>

----------------------------------------------------------------------------
(* Values *)

\* JavaScript's undefined: what memory[address] yields outside the array.
Undefined == -1

\* JavaScript's NaN: undefined + 1, and NaN % n.
NaN == -2

\* A call that threw instead of returning.
Threw == -4

\* No flag-affecting instruction has executed since the last reset.
NoResult == -3

Byte == 0..255

\* ToInt32 of the operands of the bitwise operators: undefined and NaN become 0.
ToInt32(v) == IF v < 0 THEN 0 ELSE v

RECURSIVE BitAnd(_, _)
\* a & b on two's-complement integers (\div and % round towards minus infinity,
\* so -1 is the all-ones word).
BitAnd(a, b) ==
  IF a = 0 \/ b = 0 THEN 0
  ELSE IF a = -1 THEN b
  ELSE IF b = -1 THEN a
  ELSE (a % 2) * (b % 2) + 2 * BitAnd(a \div 2, b \div 2)

RECURSIVE BitOr(_, _)
\* a | b on two's-complement integers.
BitOr(a, b) ==
  IF a = 0 THEN b
  ELSE IF b = 0 THEN a
  ELSE IF a = -1 \/ b = -1 THEN -1
  ELSE (IF a % 2 = 1 \/ b % 2 = 1 THEN 1 ELSE 0) + 2 * BitOr(a \div 2, b \div 2)

\* ~m on a 32-bit two's-complement integer.
BitNot(m) == -m - 1

\* a + b in JavaScript: NaN as soon as an operand is undefined or NaN.
Plus(a, b) == IF a < 0 \/ b < 0 THEN NaN ELSE a + b

\* a % n in JavaScript for n > 0: NaN stays NaN.
Rem(a, n) == IF a < 0 THEN NaN ELSE a % n

----------------------------------------------------------------------------
(* Instruction set and memory layout *)

BRK == 0
LDA_Immediate == 169
INX == 232
TAX == 170

\* new Uint8Array(0xFFFF): the number of cells of memory.
MemorySize == 65535

\* load's target offset, 0x8000.
ProgramStart == 32768

\* The reset vector, 0xFFFC.
ResetVector == 65532

\* The modulus of wrapAroundUint8, 0xFF.
Uint8Modulus == 255

\* The modulus of wrapAroundUint16, 0xFFFF.
Uint16Modulus == 65535

ZeroFlag == 2
NegativeFlag == 128

\* Mutant: the wrap-around taken modulo 256.
wrapAroundUint8_Mod256(num) == Rem(num, 256)

wrapAroundUint8(num) == Rem(num, Uint8Modulus)

wrapAroundUint16(num) == Rem(num, Uint16Modulus)

----------------------------------------------------------------------------
(* Memory: mem maps the addresses that hold a non-zero byte to that byte;   *)
(* every other address below MemorySize holds 0.                            *)

memoryRead(mem, address) ==
  IF address \in DOMAIN mem THEN mem[address]
  ELSE IF address \in 0..(MemorySize - 1) THEN 0
  ELSE Undefined

\* A store into a Uint8Array keeps data modulo 256 and ignores an index
\* outside the array.
memoryWrite(mem, address, data) ==
  IF address \notin 0..(MemorySize - 1) THEN mem
  ELSE LET byte == ToInt32(data) % 256
           dom  == IF byte = 0 THEN DOMAIN mem \ {address}
                   ELSE DOMAIN mem \cup {address}
       IN [a \in dom |-> IF a = address THEN byte ELSE mem[a]]

memoryReadUint16(mem, address) ==
  LET lo == memoryRead(mem, address)
      hi == memoryRead(mem, address + 1)
  IN BitOr(ToInt32(hi) * 256, ToInt32(lo))

memoryWriteUint16(mem, address, data) ==
  LET hi == data \div 256
      lo == BitAnd(data, 255)
  IN memoryWrite(memoryWrite(mem, address, lo), address + 1, hi)

\* A number[] of bytes, kept like memory: its length and its non-zero cells,
\* indexed from 0.
Array(s) ==
  [length |-> Len(s),
   cells  |-> [i \in {j \in 0..(Len(s) - 1) : s[j + 1] # 0} |-> s[i + 1]]]

At(array, i) ==
  IF i \in DOMAIN array.cells THEN array.cells[i]
  ELSE IF i \in 0..(array.length - 1) THEN 0
  ELSE Undefined

\* memory.set(prog, offset): throws a RangeError, writing nothing, when the
\* source does not fit.
SetFits(prog, offset) == prog.length + offset <= MemorySize

\* Mutant: the copy stops one byte short of the end of the source.
memorySet_DropsLast(mem, prog, offset) ==
  LET covered == offset..(offset + prog.length - 2)
      nonzero == {offset + i : i \in {j \in DOMAIN prog.cells : j < prog.length - 1}}
  IN [a \in (DOMAIN mem \ covered) \cup nonzero |->
        IF a \in nonzero THEN prog.cells[a - offset] % 256 ELSE mem[a]]

memorySet(mem, prog, offset) ==
  LET covered == offset..(offset + prog.length - 1)
      nonzero == {offset + i : i \in DOMAIN prog.cells}
  IN [a \in (DOMAIN mem \ covered) \cup nonzero |->
        IF a \in nonzero THEN prog.cells[a - offset] % 256 ELSE mem[a]]

----------------------------------------------------------------------------
(* Flags *)

\* Mutant: the Negative flag is never cleared (the mask 0b1111_1111 of the
\* first interpreter).
updateZeroAndNegativeFlags_StickyNegative(st, value) ==
  LET z == IF value = 0 THEN BitOr(st, ZeroFlag)
           ELSE BitAnd(st, BitNot(ZeroFlag))
  IN IF BitAnd(ToInt32(value), NegativeFlag) # 0 THEN BitOr(z, NegativeFlag)
     ELSE BitAnd(z, 255)

\* Mutant: the Zero flag is never cleared.
updateZeroAndNegativeFlags_StickyZero(st, value) ==
  LET z == IF value = 0 THEN BitOr(st, ZeroFlag) ELSE st
  IN IF BitAnd(ToInt32(value), NegativeFlag) # 0 THEN BitOr(z, NegativeFlag)
     ELSE BitAnd(z, BitNot(NegativeFlag))

\* Mutant: the status is rebuilt from the two flags alone.
updateZeroAndNegativeFlags_Assigns(st, value) ==
  BitOr(IF value = 0 THEN ZeroFlag ELSE 0,
        IF BitAnd(ToInt32(value), NegativeFlag) # 0 THEN NegativeFlag ELSE 0)

\* Mutant: the Zero flag is added to the status instead of or-ed into it.
updateZeroAndNegativeFlags_Adds(st, value) ==
  LET z == IF value = 0 THEN st + ZeroFlag
           ELSE BitAnd(st, BitNot(ZeroFlag))
  IN IF BitAnd(ToInt32(value), NegativeFlag) # 0 THEN BitOr(z, NegativeFlag)
     ELSE BitAnd(z, BitNot(NegativeFlag))

updateZeroAndNegativeFlags(st, value) ==
  LET z == IF value = 0 THEN BitOr(st, ZeroFlag)
           ELSE BitAnd(st, BitNot(ZeroFlag))
  IN IF BitAnd(ToInt32(value), NegativeFlag) # 0 THEN BitOr(z, NegativeFlag)
     ELSE BitAnd(z, BitNot(NegativeFlag))

----------------------------------------------------------------------------
(* Addressing modes *)

\* Mutant: the operand is taken at the opcode's own address.
getOperandAddress_AtOpcode(mode, pc, mem, x, y) == pc - 1

\* Mutant: a mode without a rule resolves like Immediate.
getOperandAddress_DefaultsToPc(mode, pc, mem, x, y) ==
  CASE mode = "Immediate" -> pc
    [] mode = "ZeroPage" -> memoryRead(mem, pc)
    [] mode = "Absolute" -> memoryReadUint16(mem, pc)
    [] mode = "ZeroPage_X" -> wrapAroundUint16(Plus(memoryRead(mem, pc), x))
    [] mode = "ZeroPage_Y" -> wrapAroundUint16(Plus(memoryRead(mem, pc), y))
    [] mode = "Absolute_X" -> wrapAroundUint16(Plus(memoryReadUint16(mem, pc), x))
    [] mode = "Absolute_Y" -> wrapAroundUint16(Plus(memoryReadUint16(mem, pc), y))
    [] mode = "Indirect_X" ->
         LET base == memoryRead(mem, pc)
             ptr  == wrapAroundUint8(Plus(base, x))
             lo   == memoryRead(mem, ptr)
             hi   == memoryRead(mem, wrapAroundUint16(Plus(ptr, 1)))
         IN BitOr(ToInt32(hi) * 256, ToInt32(lo))
    [] mode = "Indirect_Y" ->
         LET base == memoryRead(mem, pc)
             lo   == memoryRead(mem, base)
             hi   == memoryRead(mem, wrapAroundUint16(Plus(base, 1)))
             deref_base == BitOr(ToInt32(hi) * 256, ToInt32(lo))
         IN wrapAroundUint16(Plus(deref_base, y))
    [] OTHER -> pc

\* CPU.getOperandAddress; the default case throws.
getOperandAddress(mode, pc, mem, x, y) ==
  CASE mode = "Immediate" -> pc
    [] mode = "ZeroPage" -> memoryRead(mem, pc)
    [] mode = "Absolute" -> memoryReadUint16(mem, pc)
    [] mode = "ZeroPage_X" -> wrapAroundUint16(Plus(memoryRead(mem, pc), x))
    [] mode = "ZeroPage_Y" -> wrapAroundUint16(Plus(memoryRead(mem, pc), y))
    [] mode = "Absolute_X" -> wrapAroundUint16(Plus(memoryReadUint16(mem, pc), x))
    [] mode = "Absolute_Y" -> wrapAroundUint16(Plus(memoryReadUint16(mem, pc), y))
    [] mode = "Indirect_X" ->
         LET base == memoryRead(mem, pc)
             ptr  == wrapAroundUint8(Plus(base, x))
             lo   == memoryRead(mem, ptr)
             hi   == memoryRead(mem, wrapAroundUint16(Plus(ptr, 1)))
         IN BitOr(ToInt32(hi) * 256, ToInt32(lo))
    [] mode = "Indirect_Y" ->
         LET base == memoryRead(mem, pc)
             lo   == memoryRead(mem, base)
             hi   == memoryRead(mem, wrapAroundUint16(Plus(base, 1)))
             deref_base == BitOr(ToInt32(hi) * 256, ToInt32(lo))
         IN wrapAroundUint16(Plus(deref_base, y))
    [] OTHER -> Threw

----------------------------------------------------------------------------
(* Bounds and inputs *)

\* Calls of load in one behaviour.
MaxLoads == 2

\* Calls of run after one load (and before the first).
MaxRuns == 2

\* Length of the programs enumerated over Alphabet.
MaxLen == 3

\* The four opcodes, an unimplemented opcode (0x02) and the operand 0xFF.
Alphabet == {BRK, LDA_Immediate, INX, TAX, 2, 255}

ShortPrograms == {Array(s) : s \in UNION {[1..n -> Alphabet] : n \in 0..MaxLen}}

\* The programs of the tests, with every operand byte.
LdaPrograms == {Array(<<LDA_Immediate, v, BRK>>) : v \in Byte}

InxPrograms == {Array(<<LDA_Immediate, v, TAX, INX, BRK>>) : v \in Byte}

TaxPrograms == {Array(<<LDA_Immediate, u, TAX, LDA_Immediate, v, TAX>>) :
                  u \in {0, 5, 136}, v \in Byte}

\* A cartridge image of n bytes: LDA #5, BRK at its start, the reset vector
\* 0x8000 at offsets 0x7FFC-0x7FFD and an LDA opcode in its last-but-one cell
\* of the full image.
RomImage(n) ==
  [length |-> n,
   cells  |-> [i \in {j \in {0, 1, 32765, 32766} : j < n} |->
                 CASE i = 0 -> LDA_Immediate
                   [] i = 1 -> 5
                   [] i = 32765 -> 128
                   [] i = 32766 -> LDA_Immediate]]

\* Below the reset vector, the most memory.set accepts, the whole ROM region.
RomImages == {RomImage(32764), RomImage(32767), RomImage(32768)}

\* What a second load brings: nothing, a program with no BRK of its own, a
\* test program.
ReloadPrograms == {Array(<<>>), Array(<<LDA_Immediate, 1>>),
                   Array(<<LDA_Immediate, 255, TAX, INX, BRK>>)}

\* Programs that go on after their first BRK.
ResumePrograms == {Array(<<LDA_Immediate, 255, BRK, INX>>),
                   Array(<<LDA_Immediate, 255, BRK, TAX, 2>>)}

\* The program of the test 'transferring zero': no BRK of its own.
ZeroTransfer == Array(<<LDA_Immediate, 0, TAX, TAX>>)

Programs == ShortPrograms \cup LdaPrograms \cup InxPrograms \cup TaxPrograms
              \cup ResumePrograms \cup RomImages \cup {ZeroTransfer}

----------------------------------------------------------------------------
(* Operations *)

Init ==
  /\ register_acc = 0
  /\ register_x = 0
  /\ register_y = 0
  /\ status = 0
  /\ program_counter = 0
  /\ memory = <<>>
  /\ phase = "Unloaded"
  /\ opCode = Undefined
  /\ opAddress = Undefined
  /\ result = NoResult
  /\ program = Array(<<>>)
  /\ last = "new"
  /\ calledFrom = "Unloaded"
  /\ loads = 0
  /\ runs = 0
  /\ calls = <<>>

\* Mutant: reset forgets the status register.
reset_KeepsStatus ==
  /\ register_acc' = 0
  /\ register_x' = 0
  /\ register_y' = 0
  /\ status' = status
  /\ program_counter' = memoryReadUint16(memory', ResetVector)

\* CPU.reset, reading the vector from the memory load has just written.
reset ==
  /\ register_acc' = 0
  /\ register_x' = 0
  /\ register_y' = 0
  /\ status' = 0
  /\ program_counter' = memoryReadUint16(memory', ResetVector)

\* CPU.load: memory.set throws before anything is written when the program
\* does not fit; the caller then sees the CPU as it was.
load(prog) ==
  /\ phase # "Running"
  /\ loads < MaxLoads
  /\ loads' = loads + 1
  /\ program' = prog
  /\ calledFrom' = phase
  /\ IF SetFits(prog, ProgramStart)
     THEN /\ memory' = memoryWriteUint16(memorySet(memory, prog, ProgramStart),
                                         ResetVector, ProgramStart)
          /\ reset
          /\ phase' = "Loaded"
          /\ last' = "load"
          /\ result' = NoResult
          /\ opCode' = Undefined
          /\ opAddress' = Undefined
          /\ runs' = 0
          /\ UNCHANGED calls
     ELSE /\ last' = "loadError"
          /\ UNCHANGED <<registers, program_counter, memory, phase, opCode,
                         opAddress, result, runs, calls>>

\* Mutant: run resets the CPU before its loop, as interpret once did.
run_Resets ==
  /\ phase # "Running"
  /\ runs < MaxRuns
  /\ runs' = runs + 1
  /\ phase' = "Running"
  /\ calledFrom' = phase
  /\ last' = "run"
  /\ register_acc' = 0
  /\ register_x' = 0
  /\ register_y' = 0
  /\ status' = 0
  /\ program_counter' = memoryReadUint16(memory, ResetVector)
  /\ UNCHANGED <<memory, opCode, opAddress, result, program, loads, calls>>

\* A call of CPU.run: the loop starts at the program counter as it is.
run ==
  /\ phase # "Running"
  /\ runs < MaxRuns
  /\ runs' = runs + 1
  /\ phase' = "Running"
  /\ calledFrom' = phase
  /\ last' = "run"
  /\ UNCHANGED <<registers, program_counter, memory, opCode, opAddress, result,
                 program, loads, calls>>

\* The fetch at the top of the loop: const opCode = memoryRead(program_counter).
Fetched == memoryRead(memory, program_counter)

fetch ==
  /\ opCode' = Fetched
  /\ opAddress' = program_counter

\* Mutant: the register is assigned directly, the flags are not updated.
registerSet_NoFlags(register, value) ==
  /\ register_acc' = IF register = "register_acc" THEN value ELSE register_acc
  /\ register_x' = IF register = "register_x" THEN value ELSE register_x
  /\ register_y' = IF register = "register_y" THEN value ELSE register_y
  /\ status' = status
  /\ result' = value

\* CPU.registerSet: the register takes value, the flags follow value.
registerSet(register, value) ==
  /\ register_acc' = IF register = "register_acc" THEN value ELSE register_acc
  /\ register_x' = IF register = "register_x" THEN value ELSE register_x
  /\ register_y' = IF register = "register_y" THEN value ELSE register_y
  /\ status' = updateZeroAndNegativeFlags(status, value)
  /\ result' = value

\* CPU.lda, called with program_counter already past the opcode.
lda(addressingMode, pc) ==
  LET address == getOperandAddress(addressingMode, pc, memory, register_x, register_y)
      param   == memoryRead(memory, address)
  IN registerSet("register_acc", param)

\* Mutant: BRK consumes a padding byte, as on the 6502.
ExecBRK_SkipsPadding ==
  /\ phase = "Running"
  /\ Fetched = BRK
  /\ fetch
  /\ program_counter' = program_counter + 2
  /\ phase' = "Halted"
  /\ last' = "BRK"
  /\ UNCHANGED <<registers, memory, result, program, calledFrom, loads, runs, calls>>

\* case Instruction.BRK: return.
ExecBRK ==
  /\ phase = "Running"
  /\ Fetched = BRK
  /\ fetch
  /\ program_counter' = program_counter + 1
  /\ phase' = "Halted"
  /\ last' = "BRK"
  /\ UNCHANGED <<registers, memory, result, program, calledFrom, loads, runs, calls>>

\* Mutant: the operand byte is not skipped.
ExecLDA_KeepsOperand ==
  /\ phase = "Running"
  /\ Fetched = LDA_Immediate
  /\ fetch
  /\ lda("Immediate", program_counter + 1)
  /\ program_counter' = program_counter + 1
  /\ last' = "LDA"
  /\ UNCHANGED <<memory, phase, program, calledFrom, loads, runs, calls>>

\* case Instruction.LDA_Immediate.
ExecLDA ==
  /\ phase = "Running"
  /\ Fetched = LDA_Immediate
  /\ fetch
  /\ lda("Immediate", program_counter + 1)
  /\ program_counter' = program_counter + 1 + 1
  /\ last' = "LDA"
  /\ UNCHANGED <<memory, phase, program, calledFrom, loads, runs, calls>>

\* Mutant: the increment goes to register_y.
ExecINX_IntoY ==
  /\ phase = "Running"
  /\ Fetched = INX
  /\ fetch
  /\ registerSet("register_y", wrapAroundUint8(Plus(register_y, 1)))
  /\ program_counter' = program_counter + 1
  /\ last' = "INX"
  /\ UNCHANGED <<memory, phase, program, calledFrom, loads, runs, calls>>

\* case Instruction.INX.
ExecINX ==
  /\ phase = "Running"
  /\ Fetched = INX
  /\ fetch
  /\ registerSet("register_x", wrapAroundUint8(Plus(register_x, 1)))
  /\ program_counter' = program_counter + 1
  /\ last' = "INX"
  /\ UNCHANGED <<memory, phase, program, calledFrom, loads, runs, calls>>

\* Mutant: program_counter is not advanced past the opcode.
ExecTAX_Stays ==
  /\ phase = "Running"
  /\ Fetched = TAX
  /\ fetch
  /\ registerSet("register_x", register_acc)
  /\ program_counter' = program_counter
  /\ last' = "TAX"
  /\ UNCHANGED <<memory, phase, program, calledFrom, loads, runs, calls>>

\* case Instruction.TAX.
ExecTAX ==
  /\ phase = "Running"
  /\ Fetched = TAX
  /\ fetch
  /\ registerSet("register_x", register_acc)
  /\ program_counter' = program_counter + 1
  /\ last' = "TAX"
  /\ UNCHANGED <<memory, phase, program, calledFrom, loads, runs, calls>>

\* Mutant: an unimplemented opcode is skipped and the loop goes on.
ExecDefault_Skips ==
  /\ phase = "Running"
  /\ Fetched \notin {BRK, LDA_Immediate, INX, TAX}
  /\ fetch
  /\ program_counter' = program_counter + 1
  /\ last' = "todo"
  /\ UNCHANGED <<registers, memory, phase, result, program, calledFrom, loads, runs, calls>>

\* Mutant: the abort resets the registers and the status.
ExecDefault_Resets ==
  /\ phase = "Running"
  /\ Fetched \notin {BRK, LDA_Immediate, INX, TAX}
  /\ fetch
  /\ program_counter' = program_counter + 1
  /\ phase' = "Aborted"
  /\ last' = "todo"
  /\ register_acc' = 0
  /\ register_x' = 0
  /\ register_y' = 0
  /\ status' = 0
  /\ UNCHANGED <<memory, result, program, calledFrom, loads, runs, calls>>

\* default: throw new Error('todo!').
ExecDefault ==
  /\ phase = "Running"
  /\ Fetched \notin {BRK, LDA_Immediate, INX, TAX}
  /\ fetch
  /\ program_counter' = program_counter + 1
  /\ phase' = "Aborted"
  /\ last' = "todo"
  /\ UNCHANGED <<registers, memory, result, program, calledFrom, loads, runs, calls>>

RECURSIVE runFrom(_, _, _, _, _)
\* CPU.run as a function of the state it is called in: the registers, the
\* status and the program counter it leaves, and how it ended.
runFrom(mem, pc, acc, x, st) ==
  LET op == memoryRead(mem, pc)
  IN CASE op = BRK ->
            [register_acc |-> acc, register_x |-> x, status |-> st,
             program_counter |-> pc + 1, ended |-> "BRK"]
       [] op = LDA_Immediate ->
            LET param == memoryRead(mem, getOperandAddress("Immediate", pc + 1,
                                                           mem, x, 0))
            IN runFrom(mem, pc + 1 + 1, param, x,
                       updateZeroAndNegativeFlags(st, param))
       [] op = INX ->
            LET value == wrapAroundUint8(Plus(x, 1))
            IN runFrom(mem, pc + 1, acc, value,
                       updateZeroAndNegativeFlags(st, value))
       [] op = TAX ->
            runFrom(mem, pc + 1, acc, acc, updateZeroAndNegativeFlags(st, acc))
       [] OTHER ->
            [register_acc |-> acc, register_x |-> x, status |-> st,
             program_counter |-> pc + 1, ended |-> "todo"]

\* load(prog) and run on a newly constructed CPU.
freshRun(prog) ==
  LET mem == memoryWriteUint16(memorySet(<<>>, prog, ProgramStart),
                               ResetVector, ProgramStart)
  IN runFrom(mem, memoryReadUint16(mem, ResetVector), 0, 0, 0)

Load == \E prog \in (IF loads = 0 THEN Programs ELSE ReloadPrograms) : load(prog)

Next == Load \/ run \/ ExecBRK \/ ExecLDA \/ ExecINX \/ ExecTAX \/ ExecDefault

Spec == Init /\ [][Next]_vars

\* One iteration of run's while (true) loop.
Iteration == ExecBRK \/ ExecLDA \/ ExecINX \/ ExecTAX \/ ExecDefault

\* run is synchronous: once called, its loop goes on until it returns or
\* throws.
SpecFair == Spec /\ WF_vars(Iteration)

----------------------------------------------------------------------------
(* The top of memory *)

\* The largest image memory.set accepts: LDA #v at its start, the bytes the
\* reset vector will hold at offsets 0x7FFC and 0x7FFD, and one opcode in the
\* last cell of memory, 0xFFFE.
TopImage(v, op) ==
  LET bytes == [i \in {0, 1, 32765, 32766} |->
                  CASE i = 0 -> LDA_Immediate
                    [] i = 1 -> v
                    [] i = 32765 -> 128
                    [] i = 32766 -> op]
  IN [length |-> MemorySize - ProgramStart,
      cells  |-> [i \in {j \in DOMAIN bytes : bytes[j] # 0} |-> bytes[i]]]

TopImages == {TopImage(v, op) : v \in {0, 5, 136},
                                op \in {BRK, LDA_Immediate, INX, TAX, 2}}

\* The CPU after load(image) and as many calls of run as it takes to return
\* from the BRK in the low byte of the reset vector: the first run executes
\* LDA #v and returns at the zero cell behind it, each later run returns at
\* the next zero cell, one address further up.  loads and runs count the
\* calls made from here on; a second load is still to come.
InitTop ==
  \E image \in TopImages :
    /\ register_acc = At(image, 1)
    /\ register_x = 0
    /\ register_y = 0
    /\ status = updateZeroAndNegativeFlags(0, At(image, 1))
    /\ program_counter = ResetVector + 1
    /\ memory = memoryWriteUint16(memorySet(<<>>, image, ProgramStart),
                                  ResetVector, ProgramStart)
    /\ phase = "Halted"
    /\ opCode = BRK
    /\ opAddress = ResetVector
    /\ result = At(image, 1)
    /\ program = image
    /\ last = "BRK"
    /\ calledFrom = "Halted"
    /\ loads = MaxLoads - 1
    /\ runs = 0
    /\ calls = <<>>

SpecTop == InitTop /\ [][Next]_vars

----------------------------------------------------------------------------
(* The methods of the CPU called one at a time *)

\* Direct calls made in one behaviour.
MaxCalls == 2

\* Addresses at both ends of memory and around load's targets.
Addresses == {0, 1, ProgramStart, MemorySize - 2, MemorySize - 1, MemorySize}

DataBytes == {0, 1, 127, 128, 255}

DataWords == {0, 255, 256, 4660, 32768, 65535}

\* One more entry of calls: the method, its arguments, what it returned
\* (Undefined for a void method, Threw when it threw) and the status it found.
Called(name, args, returned) ==
  /\ Len(calls) < MaxCalls
  /\ calls' = Append(calls, [name |-> name, args |-> args,
                             returned |-> returned, status |-> status])
  /\ last' = name

memoryReadCall(address) ==
  /\ Called("memoryRead", <<address>>, memoryRead(memory, address))
  /\ UNCHANGED <<registers, program_counter, memory, phase, opCode, opAddress,
                 result, program, calledFrom, loads, runs>>

memoryWriteCall(address, data) ==
  /\ Called("memoryWrite", <<address, data>>, Undefined)
  /\ memory' = memoryWrite(memory, address, data)
  /\ UNCHANGED <<registers, program_counter, phase, opCode, opAddress, result,
                 program, calledFrom, loads, runs>>

memoryReadUint16Call(address) ==
  /\ Called("memoryReadUint16", <<address>>, memoryReadUint16(memory, address))
  /\ UNCHANGED <<registers, program_counter, memory, phase, opCode, opAddress,
                 result, program, calledFrom, loads, runs>>

memoryWriteUint16Call(address, data) ==
  /\ Called("memoryWriteUint16", <<address, data>>, Undefined)
  /\ memory' = memoryWriteUint16(memory, address, data)
  /\ UNCHANGED <<registers, program_counter, phase, opCode, opAddress, result,
                 program, calledFrom, loads, runs>>

ReadByte == \E address \in Addresses : memoryReadCall(address)

WriteByte == \E address \in Addresses, data \in DataBytes :
               memoryWriteCall(address, data)

ReadWord == \E address \in Addresses : memoryReadUint16Call(address)

WriteWord == \E address \in Addresses, data \in DataWords :
               memoryWriteUint16Call(address, data)

NextMemory == ReadByte \/ WriteByte \/ ReadWord \/ WriteWord

\* A newly constructed CPU whose memory accessors are called.
SpecMemory == Init /\ [][NextMemory]_vars

\* Results around the two tests of updateZeroAndNegativeFlags: zero or not,
\* bit 7 or not.
FlagResults == {0, 1, 2, 127, 128, 129, 130, 255}

updateZeroAndNegativeFlagsCall(value) ==
  /\ Called("updateZeroAndNegativeFlags", <<value>>, Undefined)
  /\ status' = updateZeroAndNegativeFlags(status, value)
  /\ result' = value
  /\ UNCHANGED <<register_acc, register_x, register_y, program_counter, memory,
                 phase, opCode, opAddress, program, calledFrom, loads, runs>>

UpdateFlags == \E value \in FlagResults : updateZeroAndNegativeFlagsCall(value)

\* A CPU that was never loaded, its status field holding any byte.
InitFlags ==
  /\ register_acc = 0
  /\ register_x = 0
  /\ register_y = 0
  /\ status \in Byte
  /\ program_counter = 0
  /\ memory = <<>>
  /\ phase = "Unloaded"
  /\ opCode = Undefined
  /\ opAddress = Undefined
  /\ result = NoResult
  /\ program = Array(<<>>)
  /\ last = "new"
  /\ calledFrom = "Unloaded"
  /\ loads = 0
  /\ runs = 0
  /\ calls = <<>>

NextFlags == UpdateFlags

SpecFlags == InitFlags /\ [][NextFlags]_vars

\* The addressing modes of the enum.
Modes == {"Immediate", "ZeroPage", "ZeroPage_X", "ZeroPage_Y", "Absolute",
          "Absolute_X", "Absolute_Y", "Indirect_X", "Indirect_Y"}

\* Values of an index register and of an operand byte, at both ends of a byte.
Indexes == {0, 1, 255}

OperandBytes == {0, 1, 128, 254, 255}

getOperandAddressCall(mode) ==
  /\ Called("getOperandAddress", <<mode>>,
            getOperandAddress(mode, program_counter, memory, register_x,
                              register_y))
  /\ UNCHANGED <<registers, program_counter, memory, phase, opCode, opAddress,
                 result, program, calledFrom, loads, runs>>

\* The mode the instruction table gives BRK, INX and TAX: getOperandAddress
\* has no case for it.
UnsupportedModes == {"Implied"}

ResolveOperand ==
  \E mode \in Modes \cup UnsupportedModes : getOperandAddressCall(mode)

\* Zero-page contents for the indirect modes: the words at the pointers that
\* OperandBytes and Indexes can add up to are pairwise different, and the
\* word at pointer 0 is 0xFFFF.
ZeroPageTable ==
  (0 :> 255) @@ (1 :> 255) @@ (2 :> 16) @@ (3 :> 17)
    @@ (127 :> 32) @@ (128 :> 33) @@ (129 :> 34) @@ (130 :> 35)
    @@ (253 :> 48) @@ (254 :> 49) @@ (255 :> 50) @@ (256 :> 51)

ZeroPages == {<<>>, ZeroPageTable}

\* Where program_counter stands: at the operand bytes, at the last cell of
\* memory and at the first address behind it.
OperandPcs == {ProgramStart, MemorySize - 1, MemorySize}

RECURSIVE memoryWriteAll(_, _)
\* memoryWrite for every cell of cells.
memoryWriteAll(mem, cells) ==
  IF DOMAIN cells = {} THEN mem
  ELSE LET a == CHOOSE b \in DOMAIN cells : TRUE
       IN memoryWriteAll(memoryWrite(mem, a, cells[a]),
                         [b \in DOMAIN cells \ {a} |-> cells[b]])

\* The CPU after load([lo, hi]) on a new instance, its zero page then
\* written and its index registers set to any of Indexes: program_counter is
\* at the two operand bytes or, over an empty program, at the top of memory.
InitAddress ==
  \E lo \in OperandBytes, hi \in OperandBytes, zp \in ZeroPages,
     pc \in OperandPcs :
    /\ pc = ProgramStart \/ (lo = 0 /\ hi = 0 /\ zp = <<>>)
    /\ register_acc = 0
    /\ register_x \in Indexes
    /\ register_y \in Indexes
    /\ status = 0
    /\ program_counter = pc
    /\ memory = memoryWriteAll(
                  memoryWriteUint16(
                    memorySet(<<>>, Array(<<lo, hi>>), ProgramStart),
                    ResetVector, ProgramStart),
                  zp)
    /\ phase = "Loaded"
    /\ opCode = Undefined
    /\ opAddress = Undefined
    /\ result = NoResult
    /\ program = Array(<<lo, hi>>)
    /\ last = "load"
    /\ calledFrom = "Unloaded"
    /\ loads = 1
    /\ runs = 0
    /\ calls = <<>>

NextAddress == ResolveOperand

SpecAddress == InitAddress /\ [][NextAddress]_vars

-----------------------------------------------------------------------------
(* The earlier CPU classes: interpret(program) *)

\* The registers a CPU object holds when interpret is called, as a record.
Cpu(acc, x, st, pc) ==
  [register_acc |-> acc, register_x |-> x, status |-> st,
   program_counter |-> pc, ended |-> "none"]

\* updateZeroAndNegativeFlags of the array-based CPU: both flags are cleared
\* with 8-bit masks.
ArrayCPU_updateZeroAndNegativeFlags(st, value) ==
  LET z == IF value = 0 THEN BitOr(st, 2) ELSE BitAnd(st, 253)
  IN IF BitAnd(ToInt32(value), 128) # 0 THEN BitOr(z, 128)
     ELSE BitAnd(z, 127)

RECURSIVE ArrayCPU_loop(_, _, _, _, _)
\* The while loop of the array-based interpret: opcodes and operands are read
\* from the program array, and the loop ends behind the last element.
ArrayCPU_loop(prog, pc, acc, x, st) ==
  IF ~(pc < prog.length)
  THEN [Cpu(acc, x, st, pc) EXCEPT !.ended = "end"]
  ELSE LET op == At(prog, pc)
       IN CASE op = BRK ->
                 [Cpu(acc, x, st, pc + 1) EXCEPT !.ended = "BRK"]
            [] op = LDA_Immediate ->
                 LET param == At(prog, pc + 1)
                 IN ArrayCPU_loop(prog, pc + 1 + 1, param, x,
                                  ArrayCPU_updateZeroAndNegativeFlags(st, param))
            [] op = INX ->
                 LET value == Rem(Plus(x, 1), 255)
                 IN ArrayCPU_loop(prog, pc + 1, acc, value,
                                  ArrayCPU_updateZeroAndNegativeFlags(st, value))
            [] op = TAX ->
                 ArrayCPU_loop(prog, pc + 1, acc, acc,
                               ArrayCPU_updateZeroAndNegativeFlags(st, acc))
            [] OTHER ->
                 [Cpu(acc, x, st, pc + 1) EXCEPT !.ended = "todo"]

\* interpret of the array-based CPU: the program counter starts at 0, the
\* registers and the status are the ones the object holds.
ArrayCPU_interpret(cpu, prog) ==
  ArrayCPU_loop(prog, 0, cpu.register_acc, cpu.register_x, cpu.status)

\* updateZeroAndNegativeFlags of the first memory-based CPU.
MemoryCPU_updateZeroAndNegativeFlags(st, value) ==
  LET z == IF value = 0 THEN BitOr(st, 2) ELSE BitAnd(st, 253)
  IN IF BitAnd(ToInt32(value), 128) # 0 THEN BitOr(z, 128)
     ELSE BitAnd(z, 127)

\* load of the first memory-based CPU: the program at 0x8000 and the reset
\* vector; it does not call reset.
MemoryCPU_load(mem, prog) ==
  memoryWriteUint16(memorySet(mem, prog, ProgramStart), ResetVector,
                    ProgramStart)

RECURSIVE MemoryCPU_run(_, _, _, _, _)
\* run of the first memory-based CPU.
MemoryCPU_run(mem, pc, acc, x, st) ==
  LET op == memoryRead(mem, pc)
  IN CASE op = BRK ->
            [Cpu(acc, x, st, pc + 1) EXCEPT !.ended = "BRK"]
       [] op = LDA_Immediate ->
            LET param == memoryRead(mem, getOperandAddress("Immediate", pc + 1,
                                                           mem, x, 0))
            IN MemoryCPU_run(mem, pc + 1 + 1, param, x,
                             MemoryCPU_updateZeroAndNegativeFlags(st, param))
       [] op = INX ->
            LET value == wrapAroundUint8(Plus(x, 1))
            IN MemoryCPU_run(mem, pc + 1, acc, value,
                             MemoryCPU_updateZeroAndNegativeFlags(st, value))
       [] op = TAX ->
            MemoryCPU_run(mem, pc + 1, acc, acc,
                          MemoryCPU_updateZeroAndNegativeFlags(st, acc))
       [] OTHER ->
            [Cpu(acc, x, st, pc + 1) EXCEPT !.ended = "todo"]

\* interpret of the first memory-based CPU: load, reset, run.  A program that
\* does not fit makes memory.set throw before anything is changed.
MemoryCPU_interpret(cpu, mem, prog) ==
  IF ~SetFits(prog, ProgramStart)
  THEN [cpu EXCEPT !.ended = "RangeError"]
  ELSE LET loaded == MemoryCPU_load(mem, prog)
       IN MemoryCPU_run(loaded, memoryReadUint16(loaded, ResetVector), 0, 0, 0)

RECURSIVE FirstCPU_loop(_, _, _, _)
\* The while loop of the first CPU, which knows BRK and LDA only.  LDA sets
\* the flags in line: the Zero flag is cleared with the mask 0b1111_1101, the
\* Negative flag with the mask 0b1111_1111.
FirstCPU_loop(prog, pc, acc, st) ==
  IF ~(pc < prog.length)
  THEN [Cpu(acc, 0, st, pc) EXCEPT !.ended = "end"]
  ELSE LET op == At(prog, pc)
       IN CASE op = BRK ->
                 [Cpu(acc, 0, st, pc + 1) EXCEPT !.ended = "BRK"]
            [] op = LDA_Immediate ->
                 LET param == At(prog, pc + 1)
                     z == IF param = 0 THEN BitOr(st, 2) ELSE BitAnd(st, 253)
                     n == IF BitAnd(ToInt32(param), 128) # 0
                          THEN BitOr(z, 128) ELSE BitAnd(z, 255)
                 IN FirstCPU_loop(prog, pc + 1 + 1, param, n)
            [] OTHER ->
                 [Cpu(acc, 0, st, pc + 1) EXCEPT !.ended = "todo"]

\* interpret of the first CPU.
FirstCPU_interpret(cpu, prog) ==
  FirstCPU_loop(prog, 0, cpu.register_acc, cpu.status)

\* Two loads in one program.
LdaPairs ==
  {Array(<<LDA_Immediate, u, LDA_Immediate, v, BRK>>) : u, v \in DataBytes}

InterpretPrograms ==
  ShortPrograms \cup LdaPrograms \cup InxPrograms \cup TaxPrograms
    \cup LdaPairs \cup {ZeroTransfer}

\* One call of interpret on a CPU object, and what it leaves in the object.
\* The object is of one class: every call is a call of the same interpret.
Interpreted(name, prog, out, y, mem) ==
  /\ calls = <<>> \/ last = name
  /\ Called(name, <<prog>>,
            IF out.ended \in {"todo", "RangeError"} THEN Threw ELSE Undefined)
  /\ register_acc' = out.register_acc
  /\ register_x' = out.register_x
  /\ register_y' = y
  /\ status' = out.status
  /\ program_counter' = out.program_counter
  /\ memory' = mem
  /\ phase' = IF out.ended \in {"todo", "RangeError"} THEN "Aborted"
              ELSE "Halted"
  /\ program' = prog
  /\ UNCHANGED <<opCode, opAddress, result, calledFrom, loads, runs>>

CpuNow == Cpu(register_acc, register_x, status, program_counter)

ArrayCPU_interpretCall(prog) ==
  Interpreted("ArrayCPU.interpret", prog, ArrayCPU_interpret(CpuNow, prog),
              register_y, memory)

MemoryCPU_interpretCall(prog) ==
  Interpreted("MemoryCPU.interpret", prog,
              MemoryCPU_interpret(CpuNow, memory, prog),
              IF SetFits(prog, ProgramStart) THEN 0 ELSE register_y,
              IF SetFits(prog, ProgramStart) THEN MemoryCPU_load(memory, prog)
              ELSE memory)

FirstCPU_interpretCall(prog) ==
  Interpreted("FirstCPU.interpret", prog, FirstCPU_interpret(CpuNow, prog),
              register_y, memory)

\* The programs a call is made with: any program on a new object, a short
\* one on an object that has interpreted before.
InterpretInputs == IF calls = <<>> THEN InterpretPrograms ELSE ReloadPrograms

ArrayInterpret == \E prog \in InterpretInputs : ArrayCPU_interpretCall(prog)

MemoryInterpret == \E prog \in InterpretInputs : MemoryCPU_interpretCall(prog)

FirstInterpret == \E prog \in InterpretInputs : FirstCPU_interpretCall(prog)

NextInterpret == ArrayInterpret \/ MemoryInterpret \/ FirstInterpret

SpecInterpret == Init /\ [][NextInterpret]_vars

----------------------------------------------------------------------------
(* Properties *)

\* The Zero flag (status bit 1) and the Negative flag (status bit 7), read
\* arithmetically.
ZeroSet(st) == (st \div 2) % 2 = 1

NegativeSet(st) == (st \div 128) % 2 = 1

\* The first run after a load has returned at a BRK.
FirstRunHalted == last = "BRK" /\ runs = 1 /\ calledFrom = "Loaded"

\* C1: for every byte v, load([LDA_Immediate, v, BRK]) on a fresh CPU followed
\* by run leaves the accumulator equal to v, Zero set exactly when v = 0 and
\* Negative set exactly when bit 7 of v is 1.
C1_LdaLoadsOperand ==
  (FirstRunHalted /\ loads = 1 /\ program \in LdaPrograms) =>
     /\ register_acc = At(program, 1)
     /\ ZeroSet(status) <=> (At(program, 1) = 0)
     /\ NegativeSet(status) <=> (At(program, 1) >= 128)

C1_Witness ==
  /\ FirstRunHalted /\ loads = 1
  /\ program = Array(<<LDA_Immediate, 136, BRK>>)
  /\ register_acc = 136
  /\ status = 128

\* C2: INX leaves register_x equal to (x + 1) mod 256 for every x in 0..255,
\* with Zero and Negative set from that value (255 -> 0, 254 -> 255).
C2_InxWrapsAt256 ==
  [][(phase = "Running" /\ Fetched = INX /\ register_x \in Byte) =>
       /\ register_x' = (register_x + 1) % 256
       /\ ZeroSet(status') <=> (register_x' = 0)
       /\ NegativeSet(status') <=> (register_x' >= 128)]_vars

\* C3: load([LDA_Immediate, 0xFF, TAX, INX, BRK]) followed by run leaves
\* register_x equal to 0x01.
OverflowProgram == Array(<<LDA_Immediate, 255, TAX, INX, BRK>>)

C3_InxOverflowIsOne ==
  (FirstRunHalted /\ program = OverflowProgram) => register_x = 1

C3_Witness ==
  /\ FirstRunHalted /\ loads = 1
  /\ program = OverflowProgram
  /\ register_acc = 255
  /\ register_x = 1

\* C4: TAX copies the accumulator a to register_x whatever register_x and
\* status were: afterwards register_x = a, the accumulator is still a, Zero is
\* set exactly when a = 0 and Negative exactly when bit 7 of a is 1.
C4_TaxIsPureCopy ==
  [][(phase = "Running" /\ Fetched = TAX /\ register_acc \in Byte) =>
       /\ register_x' = register_acc
       /\ register_acc' = register_acc
       /\ ZeroSet(status') <=> (register_acc = 0)
       /\ NegativeSet(status') <=> (register_acc >= 128)]_vars

\* The second TAX of [LDA 0x88, TAX, LDA 0x05, TAX]: register_x was 0x88 and
\* Negative was set before it.
C4_Witness ==
  /\ last = "TAX"
  /\ program = Array(<<LDA_Immediate, 136, TAX, LDA_Immediate, 5, TAX>>)
  /\ program_counter = ProgramStart + 6
  /\ register_x = 5
  /\ register_acc = 5
  /\ status = 0

\* C5: in every reachable state Zero and Negative are the flags of the result
\* of the last flag-affecting instruction (LDA, INX, TAX) executed since the
\* last reset, and both are clear when there is none.
C5_FlagsFollowLastResult ==
  /\ (last = "LDA") => result = register_acc
  /\ (last \in {"INX", "TAX"}) => result = register_x
  /\ (last = "load") => result = NoResult
  /\ (result = NoResult) => (~ZeroSet(status) /\ ~NegativeSet(status))
  /\ (result \in Byte) =>
       /\ ZeroSet(status) <=> (result = 0)
       /\ NegativeSet(status) <=> (result >= 128)

\* The second LDA of [LDA 0x88, TAX, LDA 0x05, TAX]: a positive byte loaded
\* while Negative was set.
C5_Witness ==
  /\ last = "LDA"
  /\ program = Array(<<LDA_Immediate, 136, TAX, LDA_Immediate, 5, TAX>>)
  /\ register_x = 136
  /\ result = 5
  /\ status = 0

\* C6: a load that returns leaves accumulator, register_x, register_y and
\* status 0 and program_counter equal to the little-endian word at
\* 0xFFFC-0xFFFD, which is 0x8000, whatever the CPU was doing before.
C6_LoadResets ==
  (last = "load") =>
     /\ register_acc = 0 /\ register_x = 0 /\ register_y = 0 /\ status = 0
     /\ program_counter = memoryRead(memory, ResetVector)
                            + 256 * memoryRead(memory, ResetVector + 1)
     /\ program_counter = 32768

\* A load made after a run aborted on an unimplemented opcode.
C6_Witness ==
  /\ last = "load"
  /\ calledFrom = "Aborted"
  /\ loads = 2

\* C7: for every program of n <= 0x8000 bytes load does not fail, every
\* program byte is at 0x8000 + i afterwards and the reset vector reads
\* 0x00, 0x80.
C7_LoadStoresProgram ==
  (last \in {"load", "loadError"} /\ program.length <= 32768) =>
     /\ last = "load"
     /\ \A i \in 0..(program.length - 1) :
          memoryRead(memory, ProgramStart + i) = At(program, i)
     /\ memoryRead(memory, ResetVector) = 0
     /\ memoryRead(memory, ResetVector + 1) = 128

\* C8: a fetched BRK ends the run with accumulator, register_x, register_y,
\* status and memory unchanged and program_counter at the BRK's address + 1.
C8_BrkChangesNothing ==
  [][(phase = "Running" /\ Fetched = BRK) =>
       /\ UNCHANGED <<register_acc, register_x, register_y, status, memory>>
       /\ program_counter' = program_counter + 1
       /\ opAddress' = program_counter
       /\ phase' = "Halted"]_vars

\* A BRK reached with registers and flags set by earlier instructions.
C8_Witness ==
  /\ last = "BRK"
  /\ opCode = BRK
  /\ program_counter = opAddress + 1
  /\ register_acc = 255
  /\ register_x = 255
  /\ status = 128

\* C9: a fetched opcode other than 0x00, 0xA9, 0xE8, 0xAA aborts run with an
\* error: it is not skipped, and nothing more is executed in that run.
C9_UnknownOpcodeAborts ==
  [][/\ (phase = "Running" /\ Fetched \notin {0, 169, 232, 170}) =>
          (phase' = "Aborted" /\ last' = "todo" /\ opCode' = Fetched)
     /\ (phase = "Aborted") => (last' \in {"load", "loadError", "run"})]_vars

C9_Witness ==
  /\ last = "todo"
  /\ phase = "Aborted"
  /\ opCode = 2
  /\ register_acc = 255

\* C10: run called again after a halt, with no load in between, resets
\* nothing: registers, status and program_counter are those of the halt and
\* the first fetch is at the BRK's address + 1.
C10_RunResumes ==
  [][/\ (phase = "Halted" /\ last' = "run") =>
          /\ UNCHANGED <<register_acc, register_x, register_y, status, memory>>
          /\ program_counter' = program_counter
          /\ program_counter' = opAddress + 1
     /\ (last = "run" /\ calledFrom = "Halted") =>
          /\ opAddress' = program_counter
          /\ last' \in {"BRK", "todo"} =>
               UNCHANGED <<register_acc, register_x, register_y, status>>]_vars

\* The second run of [LDA 0xFF, BRK, INX]: it executes the INX after the BRK
\* on the accumulator and flags the first run left.
C10_Witness ==
  /\ runs = 2
  /\ calledFrom = "Halted"
  /\ last = "INX"
  /\ opAddress = ProgramStart + 3
  /\ register_acc = 255
  /\ register_x = 1

\* C11: program_counter is an address, an integer in 0..65535, in every state
\* reachable by load and run calls, runs resumed after a halt or after an
\* aborted run and programs reaching the top of memory included.
C11_PcIsAnAddress == program_counter \in 0..65535

\* C12: the accumulator, register_x and register_y are bytes, integers in
\* 0..255, in every reachable state, the state after an LDA whose operand is
\* at the last address of the address space included.
C12_RegistersAreBytes ==
  /\ register_acc \in Byte
  /\ register_x \in Byte
  /\ register_y \in Byte

\* The last direct call and the one before it.
LastCall == calls[Len(calls)]

PrevCall == calls[Len(calls) - 1]

\* C13: memory has 65536 cells, all 0 on construction, and for every address
\* a in 0..65535 and byte v a read of a right after writing v to a returns v;
\* no read of an address in that range yields anything but a byte.
C13_ReadReturnsWrittenByte ==
  (Len(calls) > 0 /\ LastCall.name = "memoryRead"
     /\ LastCall.args[1] \in 0..65535) =>
       /\ LastCall.returned \in Byte
       /\ (Len(calls) = 1) => LastCall.returned = 0
       /\ (Len(calls) > 1 /\ PrevCall.name = "memoryWrite"
             /\ PrevCall.args[1] = LastCall.args[1]) =>
               LastCall.returned = PrevCall.args[2]

\* C14: for every address a in 0..0xFFFE and every 16-bit value v, after the
\* 16-bit write of v at a the byte at a is v & 0xFF, the byte at a + 1 is
\* v >> 8, and the 16-bit read at a returns v.
C14_WordIsLittleEndian ==
  (Len(calls) > 1 /\ PrevCall.name = "memoryWriteUint16"
     /\ PrevCall.args[1] \in 0..65534) =>
       LET a == PrevCall.args[1]
           v == PrevCall.args[2]
       IN /\ (LastCall.name = "memoryRead" /\ LastCall.args[1] = a) =>
               LastCall.returned = v % 256
          /\ (LastCall.name = "memoryRead" /\ LastCall.args[1] = a + 1) =>
               LastCall.returned = v \div 256
          /\ (LastCall.name = "memoryReadUint16" /\ LastCall.args[1] = a) =>
               LastCall.returned = v

\* The status without its Zero bit (bit 1) and its Negative bit (bit 7).
OtherBits(st) == st - ZeroFlag * ((st \div 2) % 2) - NegativeFlag * ((st \div 128) % 2)

\* C15: for every status s in 0..255 and every result byte r, the flag update
\* changes only bits 1 and 7 of the status; bits 0 and 2..6 keep their value.
C15_FlagUpdateKeepsOtherBits ==
  (Len(calls) > 0 /\ LastCall.name = "updateZeroAndNegativeFlags") =>
     /\ status \in Byte
     /\ OtherBits(status) = OtherBits(LastCall.status)

\* Bits 0 and 2..6 were set (0b0111_1101) when a zero result set the Zero flag.
C15_Witness ==
  /\ Len(calls) = 1
  /\ LastCall.name = "updateZeroAndNegativeFlags"
  /\ LastCall.status = 125
  /\ LastCall.args = <<0>>
  /\ status = 127

\* C16: the flag update is idempotent: applied twice in a row with the same
\* result byte, the second application leaves the status the first one made.
C16_FlagUpdateIsIdempotent ==
  (Len(calls) > 1 /\ LastCall.name = "updateZeroAndNegativeFlags"
     /\ PrevCall.name = "updateZeroAndNegativeFlags"
     /\ PrevCall.args = LastCall.args) =>
       status = LastCall.status

\* The first of the two applications changed both flags.
C16_Witness ==
  /\ Len(calls) = 2
  /\ LastCall.name = "updateZeroAndNegativeFlags"
  /\ PrevCall.name = "updateZeroAndNegativeFlags"
  /\ PrevCall.args = <<128>>
  /\ LastCall.args = <<128>>
  /\ PrevCall.status = 3
  /\ LastCall.status = 129
  /\ status = 129

RECURSIVE Straight(_, _)
\* From index i on, prog is made of whole LDA_Immediate, INX and TAX
\* instructions and nothing else.
Straight(prog, i) ==
  \/ i = prog.length
  \/ At(prog, i) \in {INX, TAX} /\ Straight(prog, i + 1)
  \/ At(prog, i) = LDA_Immediate /\ i + 1 < prog.length /\ Straight(prog, i + 2)

\* The status of a reset CPU after a flag update with value.
FlagsOf(value) ==
  (IF value = 0 THEN ZeroFlag ELSE 0) + (IF value >= 128 THEN NegativeFlag ELSE 0)

RECURSIVE Effect(_, _, _)
\* The registers after the instructions of prog from index i on, in order,
\* starting from regs.
Effect(prog, i, regs) ==
  IF i >= prog.length THEN regs
  ELSE CASE At(prog, i) = LDA_Immediate ->
              Effect(prog, i + 2, [acc |-> At(prog, i + 1), x |-> regs.x,
                                   status |-> FlagsOf(At(prog, i + 1))])
         [] At(prog, i) = INX ->
              LET x == wrapAroundUint8(regs.x + 1)
              IN Effect(prog, i + 1, [acc |-> regs.acc, x |-> x,
                                      status |-> FlagsOf(x)])
         [] At(prog, i) = TAX ->
              Effect(prog, i + 1, [acc |-> regs.acc, x |-> regs.acc,
                                   status |-> FlagsOf(regs.acc)])

IndexOf(mode) ==
  IF mode \in {"ZeroPage_X", "Absolute_X"} THEN register_x ELSE register_y

\* C19: in ZeroPage_X (and ZeroPage_Y) mode, for every operand byte b and
\* index register value r in 0..255, the resolved address is (b + r) mod 256,
\* an address of the zero page.
C19_ZeroPageIndexedWraps ==
  (Len(calls) > 0 /\ LastCall.name = "getOperandAddress"
     /\ LastCall.args[1] \in {"ZeroPage_X", "ZeroPage_Y"}
     /\ program_counter = ProgramStart) =>
       /\ LastCall.returned
            = (At(program, 0) + IndexOf(LastCall.args[1])) % 256
       /\ LastCall.returned \in 0..255

\* C20: in Absolute_X (and Absolute_Y) mode, for every 16-bit little-endian
\* word w at program_counter and index register value r in 0..255, the
\* resolved address is (w + r) mod 65536; w = 0xFFFF with r = 0 resolves to
\* 0xFFFF.
C20_AbsoluteIndexedWraps ==
  (Len(calls) > 0 /\ LastCall.name = "getOperandAddress"
     /\ LastCall.args[1] \in {"Absolute_X", "Absolute_Y"}
     /\ program_counter = ProgramStart) =>
       LastCall.returned
         = (At(program, 0) + 256 * At(program, 1)
              + IndexOf(LastCall.args[1])) % 65536

\* The last direct call resolved an operand in mode.
Resolved(mode) ==
  /\ Len(calls) > 0
  /\ LastCall.name = "getOperandAddress"
  /\ LastCall.args[1] = mode

\* The little-endian word in the cells a and a + 1.
WordAt(a) == memoryRead(memory, a) + 256 * memoryRead(memory, a + 1)

\* C21: in Indirect_X mode, for every operand byte b at program_counter and
\* every register_x value x, the zero-page pointer is p = (b + x) mod 256
\* (b + x = 256 uses pointer 0) and, for p <= 254, the resolved address is
\* memory[p] + 256 * memory[p + 1].
C21_IndirectXPointerWraps ==
  (Resolved("Indirect_X") /\ program_counter = ProgramStart) =>
     LET p == (At(program, 0) + register_x) % 256
     IN (p <= 254) => LastCall.returned = WordAt(p)

\* C22: in Indirect_Y mode, for every operand byte b <= 254 at
\* program_counter and every register_y value y, the resolved address is
\* (memory[b] + 256 * memory[b + 1] + y) mod 65536; register_x plays no part.
C22_IndirectYAddsAfterDeref ==
  (Resolved("Indirect_Y") /\ program_counter = ProgramStart
     /\ At(program, 0) <= 254) =>
       LastCall.returned = (WordAt(At(program, 0)) + register_y) % 65536

\* What the three non-indexed modes return.
NonIndexedResult ==
  /\ Resolved("Immediate") => LastCall.returned = program_counter
  /\ Resolved("ZeroPage") =>
       /\ LastCall.returned \in 0..255
       /\ (program_counter = ProgramStart) => LastCall.returned = At(program, 0)
  /\ (Resolved("Absolute") /\ program_counter = ProgramStart) =>
       LastCall.returned = At(program, 0) + 256 * At(program, 1)

\* C23: the non-indexed modes return, for Immediate, program_counter itself;
\* for ZeroPage, the byte at program_counter, a value in 0..255; for Absolute,
\* the little-endian word memory[pc] + 256 * memory[pc + 1]; and resolving
\* them changes no register, status, program_counter or memory cell.
C23_NonIndexedModes ==
  /\ []NonIndexedResult
  /\ [][(last' = "getOperandAddress"
           /\ LastCall'.args[1] \in {"Immediate", "ZeroPage", "Absolute"}) =>
             UNCHANGED <<registers, program_counter, memory>>]_vars

\* C24: asking getOperandAddress for a mode that has no resolution rule, such
\* as Implied, the mode of BRK, INX and TAX in the instruction table, fails
\* with an error: the call throws and returns no address.
C24_UnsupportedModeThrows ==
  (Len(calls) > 0 /\ LastCall.name = "getOperandAddress") =>
     (LastCall.returned = Threw <=> LastCall.args[1] \notin Modes)

C24_Witness ==
  /\ Resolved("Implied")
  /\ LastCall.returned = Threw
  /\ program_counter = ProgramStart

\* The length the instruction table records for an opcode.
InstructionLength(op) ==
  CASE op = BRK -> 1
    [] op = INX -> 1
    [] op = LDA_Immediate -> 2
    [] op = TAX -> 1

\* C25: every executed instruction advances program_counter by exactly the
\* length the instruction table records for its opcode (2 for LDA_Immediate,
\* 1 for INX, TAX and BRK), from the address its opcode was fetched at, so
\* the next fetch is at the first byte behind its operand bytes.
C25_PcAdvancesByLength ==
  [][(last' \in {"BRK", "LDA", "INX", "TAX"}) =>
       /\ opAddress' = program_counter
       /\ opCode' = memoryRead(memory, program_counter)
       /\ program_counter' = program_counter + InstructionLength(opCode')]_vars

\* An LDA_Immediate has executed in the middle of a run.
C25_Witness ==
  /\ last = "LDA"
  /\ phase = "Running"
  /\ opCode = LDA_Immediate
  /\ opAddress = ProgramStart + 3
  /\ program_counter = ProgramStart + 5

\* C26: after a load that load accepts, run always terminates: it returns at
\* a BRK or aborts with an error after finitely many fetches, and within one
\* run every fetch is at a higher address than the one before, so no address
\* is fetched twice.
C26_RunTerminates ==
  /\ (phase = "Running") ~> (phase \in {"Halted", "Aborted"})
  /\ [][(phase = "Running" /\ last # "run") => opAddress' > opAddress]_vars

\* The first run of a six-byte program with no BRK has returned behind it,
\* after five fetches.
C26_Witness ==
  /\ FirstRunHalted /\ loads = 1
  /\ program \in TaxPrograms
  /\ opAddress = ProgramStart + 6

\* C27: a CPU can be reloaded: after load(P1), run, load(P2), the accumulator,
\* register_x, register_y and status that run leaves equal those of load(P2),
\* run on a fresh CPU, also when P2 is shorter than P1 and has no BRK of its
\* own.
C27_ReloadEqualsFresh ==
  (loads = 2 /\ last = "load" /\ calledFrom = "Halted") =>
     LET here  == runFrom(memory, program_counter, register_acc, register_x,
                          status)
         fresh == freshRun(program)
     IN /\ here.register_acc = fresh.register_acc
        /\ here.register_x = fresh.register_x
        /\ here.status = fresh.status
        /\ register_y = 0

\* C28: when run aborts on an unimplemented opcode, the failing step changes
\* nothing but program_counter: the accumulator, register_x, register_y, the
\* status and memory are as they were before the bad opcode was fetched, and
\* program_counter is the bad opcode's address plus 1.
C28_AbortChangesOnlyPc ==
  [][(last' = "todo") =>
       /\ UNCHANGED <<register_acc, register_x, register_y, status, memory>>
       /\ opAddress' = program_counter
       /\ program_counter' = opAddress' + 1]_vars

\* The second run of [LDA #255, BRK, TAX, 0x02] has aborted at the 0x02.
C28_Witness ==
  /\ last = "todo"
  /\ calledFrom = "Halted"
  /\ opAddress = ProgramStart + 4
  /\ program_counter = ProgramStart + 5
  /\ register_acc = 255
  /\ register_x = 255
  /\ status = NegativeFlag

\* C29: run changes only the accumulator, register_x, the status and
\* program_counter: every memory cell holds after run what it held before,
\* and register_y stays 0 from a load until the next load.
C29_RunLeavesMemoryAndY ==
  /\ [][(last' \in {"run", "BRK", "LDA", "INX", "TAX", "todo"}) =>
           (memory' = memory /\ register_y' = register_y)]_vars
  /\ [](phase # "Unloaded" => register_y = 0)

\* The first run of [LDA #7, TAX, INX, BRK] has returned.
C29_Witness ==
  /\ FirstRunHalted
  /\ program = Array(<<LDA_Immediate, 7, TAX, INX, BRK>>)
  /\ register_acc = 7
  /\ register_x = 8
  /\ register_y = 0
  /\ memoryRead(memory, ProgramStart + 1) = 7
  /\ memoryReadUint16(memory, ResetVector) = ProgramStart

\* C30: the Zero and Negative flags are never both set: in every state
\* reachable by load and run calls the status is 0x00, 0x02 or 0x80.
C30_FlagsExclusive == status \in {0, ZeroFlag, NegativeFlag}

\* Negative is set after a zero result had set Zero earlier in the run.
C30_Witness ==
  /\ FirstRunHalted
  /\ program = Array(<<LDA_Immediate, 0, TAX, LDA_Immediate, 136, TAX>>)
  /\ status = NegativeFlag

RECURSIVE Decodes(_, _)
\* The program is a sequence of the four instructions from index i on; the
\* operand of a final LDA may be missing.
Decodes(prog, i) ==
  IF i >= prog.length THEN TRUE
  ELSE CASE At(prog, i) = LDA_Immediate -> Decodes(prog, i + 2)
         [] At(prog, i) \in {BRK, INX, TAX} -> Decodes(prog, i + 1)
         [] OTHER -> FALSE

\* interpret(program) on a newly constructed CPU of the other class.
OtherInterpret ==
  IF last = "ArrayCPU.interpret"
  THEN MemoryCPU_interpret(Cpu(0, 0, 0, 0), <<>>, program)
  ELSE ArrayCPU_interpret(Cpu(0, 0, 0, 0), program)

\* C31: the array-based interpret and the memory-based interpret agree: on a
\* newly constructed CPU, for every program made of the opcodes 0x00, 0xA9,
\* 0xE8, 0xAA and operand bytes (a final LDA may lack its operand), both
\* finish without error with the same accumulator, register_x and status.
C31_InterpretersAgree ==
  (/\ Len(calls) = 1
   /\ last \in {"ArrayCPU.interpret", "MemoryCPU.interpret"}
   /\ Decodes(program, 0))
    => /\ LastCall.returned # Threw
       /\ OtherInterpret.ended \notin {"todo", "RangeError"}
       /\ register_acc = OtherInterpret.register_acc
       /\ register_x = OtherInterpret.register_x
       /\ status = OtherInterpret.status

\* C32: in the first CPU, after a program whose last LDA loaded a byte with
\* bit 7 clear the Negative flag is clear, whatever an earlier LDA of the same
\* program loaded.
C32_LdaClearsNegative ==
  (/\ Len(calls) = 1
   /\ last = "FirstCPU.interpret"
   /\ program \in LdaPairs
   /\ BitAnd(At(program, 3), NegativeFlag) = 0)
    => ~NegativeSet(status)

====
